---------------------------- MODULE Spec2Model ----------------------------
(***************************************************************************)
(* Model of src/main.py: the TradingSignal engine (fetch_data,             *)
(* calculate_rsi, calculate_sma, generate_signal) and the MainScreen       *)
(* refresh / background thread / display_signal cycle.                     *)
(*                                                                         *)
(* Numbers.  Prices are integers (price ticks).  Every quotient the code   *)
(* forms (sum/period, avg_gain/avg_loss, 100/(1+rs)) is kept as an exact   *)
(* fraction <<n, d>> in lowest terms with d > 0, so that "exactly 50.0",   *)
(* "exactly 100.0" and the comparisons against 30 and 70 are decided on    *)
(* the value the code computed and not on a rounded stand-in.              *)
(***************************************************************************)
EXTENDS Integers, Sequences, FiniteSets, TLC

(***************************************************************************)
(* Program constants                                                       *)
(***************************************************************************)
RsiPeriod == 14
SmaShort == 20
SmaLong == 50
RsiBuyBelow == 30
RsiSellAbove == 70
FetchLimit == 100

(***************************************************************************)
(* Bounds of the model                                                     *)
(***************************************************************************)
MaxLen == 52
BasePrice == 1000
MaxRefresh == 2

(***************************************************************************)
(* Exact fractions                                                         *)
(***************************************************************************)
Abs(x) == IF x < 0 THEN -x ELSE x

RECURSIVE GCD(_, _)
GCD(a, b) == IF b = 0 THEN a ELSE GCD(b, a % b)

Frac(n, d) ==
    LET g == GCD(Abs(n), Abs(d))
        s == IF d < 0 THEN -1 ELSE 1
    IN  <<(s * n) \div g, (s * d) \div g>>

FInt(n) == <<n, 1>>
FAdd(x, y) == Frac(x[1] * y[2] + y[1] * x[2], x[2] * y[2])
FSub(x, y) == Frac(x[1] * y[2] - y[1] * x[2], x[2] * y[2])
FDiv(x, y) == Frac(x[1] * y[2], x[2] * y[1])
FLt(x, y) == x[1] * y[2] < y[1] * x[2]
FGt(x, y) == FLt(y, x)

RECURSIVE SumSeq(_)
SumSeq(s) == IF s = <<>> THEN 0 ELSE Head(s) + SumSeq(Tail(s))

(* Python's s[-n:] : the last n elements, the whole list when it is shorter *)
LastN(s, n) ==
    IF n = 0 \/ Len(s) <= n THEN s ELSE SubSeq(s, Len(s) - n + 1, Len(s))

(***************************************************************************)
(* TradingSignal.fetch_data                                                *)
(*                                                                         *)
(* What requests.get / response.json() hand to the code:                   *)
(*   [kind |-> "exception", exc]       requests.get raised                 *)
(*   [kind |-> "response", status, body]                                   *)
(* and a body is                                                           *)
(*   [json |-> "invalid"]              response.json() raises              *)
(*   [json |-> "scalar"]               null / number / bool: not iterable  *)
(*   [json |-> "iterable", items]      array elements, or an object's keys *)
(* An item is either Scalar (a number inside the array: not subscriptable) *)
(* or Row(fields): an inner array, or the characters of a key.             *)
(* A field is [num |-> TRUE, v |-> n] when float() accepts it.             *)
(***************************************************************************)
Num(v) == [num |-> TRUE, v |-> v]
NotNum == [num |-> FALSE, v |-> 0]
Scalar == [sub |-> FALSE, fields |-> <<>>]
Row(fields) == [sub |-> TRUE, fields |-> fields]

Raise(e) == [raised |-> TRUE, exc |-> e, val |-> <<>>]
Return(v) == [raised |-> FALSE, exc |-> "", val |-> v]

(* one pass of the loop body, lines 45-52 *)
parse_candle(item) ==
    LET candle == item.fields
    IN  IF ~item.sub THEN Raise("TypeError")
        ELSE IF Len(candle) < 1 THEN Raise("IndexError")
        ELSE IF \E k \in 2..6 : /\ k <= Len(candle)
                                /\ ~candle[k].num
                                /\ \A j \in 2..(k-1) : candle[j].num
        THEN Raise("ValueError")
        ELSE IF Len(candle) < 6 THEN Raise("IndexError")
        ELSE Return([timestamp |-> candle[1].v,
                     open |-> candle[2].v,
                     high |-> candle[3].v,
                     low |-> candle[4].v,
                     close |-> candle[5].v,
                     volume |-> candle[6].v])

(* the loop of lines 43-52 *)
RECURSIVE parse_data(_, _)
parse_data(items, prices) ==
    IF items = <<>> THEN Return(prices)
    ELSE LET c == parse_candle(Head(items))
         IN  IF c.raised THEN c
             ELSE parse_data(Tail(items), Append(prices, c.val))

(* the try block, lines 34-54 *)
fetch_try(response) ==
    IF response.kind = "exception" THEN Raise(response.exc)
    ELSE IF response.body.json = "invalid" THEN Raise("JSONDecodeError")
    ELSE IF response.body.json = "scalar" THEN Raise("TypeError")
    ELSE parse_data(response.body.items, <<>>)

(* try / except Exception, lines 33-57 *)
fetch_data(response) ==
    LET r == fetch_try(response)
    IN  IF r.raised THEN <<>> ELSE r.val

(***************************************************************************)
(* TradingSignal.calculate_rsi / calculate_sma                             *)
(***************************************************************************)
Closes(prices) == [i \in 1..Len(prices) |-> prices[i].close]

Deltas(closes) == [i \in 1..(Len(closes) - 1) |-> closes[i + 1] - closes[i]]

Gains(ds) == [i \in 1..Len(ds) |-> IF ds[i] > 0 THEN ds[i] ELSE 0]

Losses_sign_slip(ds) == [i \in 1..Len(ds) |-> IF ds[i] > 0 THEN ds[i] ELSE 0]

Losses(ds) == [i \in 1..Len(ds) |-> IF ds[i] < 0 THEN -ds[i] ELSE 0]

(* LastN is Python's slice, so one close short of period+1 still computes *)
calculate_rsi_guard_off_by_one(prices, period) ==
    IF Len(prices) < period THEN FInt(50)
    ELSE LET deltas == Deltas(Closes(prices))
             avg_gain == Frac(SumSeq(Gains(LastN(deltas, period))), period)
             avg_loss == Frac(SumSeq(Losses(LastN(deltas, period))), period)
         IN  IF avg_loss = FInt(0) THEN FInt(100)
             ELSE LET rs == FDiv(avg_gain, avg_loss)
                  IN  FSub(FInt(100), FDiv(FInt(100), FAdd(FInt(1), rs)))

calculate_rsi(prices, period) ==
    IF Len(prices) < period + 1 THEN FInt(50)
    ELSE LET deltas == Deltas(Closes(prices))
             avg_gain == Frac(SumSeq(Gains(LastN(deltas, period))), period)
             avg_loss == Frac(SumSeq(Losses(LastN(deltas, period))), period)
         IN  IF avg_loss = FInt(0) THEN FInt(100)
             ELSE LET rs == FDiv(avg_gain, avg_loss)
                  IN  FSub(FInt(100), FDiv(FInt(100), FAdd(FInt(1), rs)))

calculate_sma(prices, period) ==
    IF Len(prices) < period THEN FInt(0)
    ELSE Frac(SumSeq(Closes(LastN(prices, period))), period)

(***************************************************************************)
(* TradingSignal.generate_signal                                           *)
(***************************************************************************)
(* datetime.now().strftime('%Y-%m-%d %H:%M:%S'): the string is kept as its *)
(* two space-separated parts, which is how display_signal takes it apart.  *)
strftime(now) == <<now.date, now.time>>

(* the indicators computed before the empty check: their fallbacks leak *)
error_result_indicators_first(symbol) ==
    [symbol |-> symbol,
     price |-> FInt(0),
     signal |-> "ERROR",
     strength |-> 0,
     rsi |-> calculate_rsi(<<>>, RsiPeriod),
     sma_20 |-> calculate_sma(<<>>, SmaShort),
     sma_50 |-> calculate_sma(<<>>, SmaLong),
     recommendation |-> "Unable to fetch data"]

error_result(symbol) ==
    [symbol |-> symbol,
     price |-> FInt(0),
     signal |-> "ERROR",
     strength |-> 0,
     rsi |-> FInt(0),
     sma_20 |-> FInt(0),
     sma_50 |-> FInt(0),
     recommendation |-> "Unable to fetch data"]

rsi_buy_vote(rsi) == FLt(rsi, FInt(RsiBuyBelow))
rsi_sell_vote(rsi) == ~rsi_buy_vote(rsi) /\ FGt(rsi, FInt(RsiSellAbove))
sma_buy_vote(sma_20, sma_50) == FGt(sma_20, sma_50)
sma_sell_vote(sma_20, sma_50) == ~sma_buy_vote(sma_20, sma_50) /\ FLt(sma_20, sma_50)

buy_signals(rsi, sma_20, sma_50) ==
    (IF rsi_buy_vote(rsi) THEN 1 ELSE 0)
    + (IF sma_buy_vote(sma_20, sma_50) THEN 1 ELSE 0)

sell_signals(rsi, sma_20, sma_50) ==
    (IF rsi_sell_vote(rsi) THEN 1 ELSE 0)
    + (IF sma_sell_vote(sma_20, sma_50) THEN 1 ELSE 0)

(* one vote is enough *)
classify_single_vote(rsi, sma_20, sma_50) ==
    LET b == buy_signals(rsi, sma_20, sma_50)
        s == sell_signals(rsi, sma_20, sma_50)
    IN  IF b >= 1
        THEN [signal |-> "BUY", strength |-> b,
              recommendation |-> "Strong BUY signal detected"]
        ELSE IF s >= 1
        THEN [signal |-> "SELL", strength |-> s,
              recommendation |-> "Strong SELL signal detected"]
        ELSE [signal |-> "HOLD", strength |-> 0,
              recommendation |-> "No clear signal - HOLD position"]

classify(rsi, sma_20, sma_50) ==
    LET b == buy_signals(rsi, sma_20, sma_50)
        s == sell_signals(rsi, sma_20, sma_50)
    IN  IF b >= 2
        THEN [signal |-> "BUY", strength |-> b,
              recommendation |-> "Strong BUY signal detected"]
        ELSE IF s >= 2
        THEN [signal |-> "SELL", strength |-> s,
              recommendation |-> "Strong SELL signal detected"]
        ELSE [signal |-> "HOLD", strength |-> 0,
              recommendation |-> "No clear signal - HOLD position"]

signal_result(symbol, prices, now) ==
    LET rsi == calculate_rsi(prices, RsiPeriod)
        sma_20 == calculate_sma(prices, SmaShort)
        sma_50 == calculate_sma(prices, SmaLong)
        c == classify(rsi, sma_20, sma_50)
    IN  [symbol |-> symbol,
         price |-> FInt(prices[Len(prices)].close),
         signal |-> c.signal,
         strength |-> c.strength,
         rsi |-> rsi,
         sma_20 |-> sma_20,
         sma_50 |-> sma_50,
         recommendation |-> c.recommendation,
         timestamp |-> strftime(now)]

generate_signal(symbol, response, now) ==
    LET prices == fetch_data(response)
    IN  IF prices = <<>> THEN error_result(symbol)
        ELSE signal_result(symbol, prices, now)

(***************************************************************************)
(* State                                                                   *)
(***************************************************************************)
VARIABLES
    current_symbol,     \* MainScreen.current_symbol
    current_interval,   \* MainScreen.current_interval
    signal_container,   \* the widgets of MainScreen.signal_container, in order
    threads,            \* one record per threading.Thread started by refresh_signal
    clock,              \* Clock callbacks scheduled by the threads, oldest first
    running,            \* the Kivy main loop is alive
    initial_pending,    \* Clock.schedule_once(refresh_signal, 1) has not fired yet
    displayed,          \* thread ids in the order display_signal ran for them
    refreshes,          \* number of calls of refresh_signal so far
    response,           \* engine runs: what the HTTP layer answers
    prices,             \* engine runs: value returned by fetch_data
    requests_made,      \* engine runs: HTTP requests issued
    period,             \* engine runs: the period argument
    rsi_out,            \* engine runs: value returned by calculate_rsi
    sma_out,            \* engine runs: value returned by calculate_sma
    result,             \* engine runs: value returned by generate_signal
    pc                  \* engine runs: which call has returned

ui_vars == <<current_symbol, current_interval, signal_container, threads,
             clock, running, initial_pending, displayed, refreshes>>
engine_vars == <<response, prices, requests_made, period, rsi_out, sma_out,
                 result, pc>>
vars == <<ui_vars, engine_vars>>

None == [none |-> TRUE]
Now == [date |-> "2026-11-04", time |-> "12:00:00"]

(***************************************************************************)
(* Inputs of the engine runs                                               *)
(***************************************************************************)
Min(a, b) == IF a < b THEN a ELSE b
Max(a, b) == IF a > b THEN a ELSE b

(* close of candle i when the price moves d1 per candle up to candle k+1   *)
(* and d2 per candle after it                                              *)
CloseAt(i, k, d1, d2) == BasePrice + d1 * Min(i - 1, k) + d2 * Max(0, i - 1 - k)

KlineRow(i, c) == Row(<<Num(i), Num(c), Num(c + 1), Num(c - 1), Num(c), Num(1)>>)

Klines(n, k, d1, d2) == [i \in 1..n |-> KlineRow(i, CloseAt(i, k, d1, d2))]

(* price moves per candle before and after the turn; the steeper pairs put *)
(* RSI exactly on 30 and on 70 when the last 7 moves follow the turn       *)
SlopePairs ==
    ({-1, 0, 1} \X {-1, 0, 1}) \cup {<<3, -7>>, <<-3, 7>>, <<7, -3>>, <<-7, 3>>}
(* how many of the last moves follow the turn *)
Turns == {0, 4, 7, 10, 14, 30}

GoodItems ==
    {Klines(n, Max(0, n - 1 - t), d[1], d[2]) :
        n \in 0..Min(MaxLen, FetchLimit), t \in Turns, d \in SlopePairs}

(* the keys of Binance's error object {"code": ..., "msg": ...} *)
ErrorObjectKeys ==
    <<Row(<<NotNum, NotNum, NotNum, NotNum>>), Row(<<NotNum, NotNum, NotNum>>)>>

ShortRow == Row(<<Num(1), Num(BasePrice), Num(BasePrice)>>)
TextRow ==
    Row(<<Num(1), Num(BasePrice), NotNum, Num(BasePrice), Num(BasePrice), Num(1)>>)

BadItems ==
    {ErrorObjectKeys, <<Scalar>>, <<ShortRow>>, <<TextRow>>}
    \cup {Append(Klines(n, n, 1, 0), b) : n \in {1, RsiPeriod + 1}, b \in {Scalar, ShortRow, TextRow}}
    \cup {<<b>> \o Klines(n, n, 1, 0) : n \in {1, RsiPeriod + 1}, b \in {Scalar, ShortRow, TextRow}}

Bodies ==
    {[json |-> "invalid", items |-> <<>>], [json |-> "scalar", items |-> <<>>]}
    \cup {[json |-> "iterable", items |-> it] : it \in GoodItems \cup BadItems}

Statuses == {200, 500}

Responses ==
    {[kind |-> "exception", exc |-> e, status |-> 0, body |-> None] :
        e \in {"ConnectionError", "Timeout"}}
    \cup {[kind |-> "response", exc |-> "", status |-> s, body |-> b] :
            s \in Statuses, b \in Bodies}

Periods == {1, 2, RsiPeriod, SmaShort, SmaLong}

(***************************************************************************)
(* Engine runs: each function applied to every input                       *)
(***************************************************************************)
UiInit ==
    /\ current_symbol = "BTCUSDT"
    /\ current_interval = "1h"
    /\ signal_container = <<"Loading...">>
    /\ threads = <<>>
    /\ clock = <<>>
    /\ running = TRUE
    /\ initial_pending = TRUE
    /\ displayed = <<>>
    /\ refreshes = 0

EngineIdle ==
    /\ response = None
    /\ prices = <<>>
    /\ requests_made = 0
    /\ period = 0
    /\ rsi_out = <<>>
    /\ sma_out = <<>>
    /\ result = None
    /\ pc = "idle"

EngineInit ==
    /\ UiInit
    /\ response \in Responses
    /\ period \in Periods
    /\ prices = <<>>
    /\ requests_made = 0
    /\ rsi_out = <<>>
    /\ sma_out = <<>>
    /\ result = None
    /\ pc = "input"

(* one call of fetch_data: a single requests.get *)
FetchData ==
    /\ pc = "input"
    /\ prices' = fetch_data(response)
    /\ requests_made' = requests_made + 1
    /\ pc' = "fetched"
    /\ UNCHANGED <<ui_vars, response, period, rsi_out, sma_out, result>>

CalculateRsi ==
    /\ pc = "fetched"
    /\ rsi_out' = calculate_rsi(prices, period)
    /\ pc' = "rsi"
    /\ UNCHANGED <<ui_vars, response, prices, requests_made, period, sma_out, result>>

CalculateSma ==
    /\ pc = "fetched"
    /\ sma_out' = calculate_sma(prices, period)
    /\ pc' = "sma"
    /\ UNCHANGED <<ui_vars, response, prices, requests_made, period, rsi_out, result>>

(* one call of generate_signal, its own fetch_data call included *)
GenerateSignal ==
    /\ pc = "input"
    /\ period = RsiPeriod
    /\ result' = generate_signal("BTCUSDT", response, Now)
    /\ prices' = fetch_data(response)
    /\ requests_made' = requests_made + 1
    /\ pc' = "signal"
    /\ UNCHANGED <<ui_vars, response, period, rsi_out, sma_out>>

EngineNext == FetchData \/ CalculateRsi \/ CalculateSma \/ GenerateSignal

SpecEngine == EngineInit /\ [][EngineNext]_vars

(***************************************************************************)
(* MainScreen: refresh triggers, background threads, display_signal        *)
(***************************************************************************)
Symbols == {"BTC", "ETH", "SOL", "ADA"}
Intervals == {"5m", "15m", "1h", "4h", "1d"}

Usdt(symbol) ==
    CASE symbol = "BTC" -> "BTCUSDT"
      [] symbol = "ETH" -> "ETHUSDT"
      [] symbol = "SOL" -> "SOLUSDT"
      [] symbol = "ADA" -> "ADAUSDT"

LoadingWidgets == <<"loading">>
CompleteRendering == <<"price_label", "signal_box", "indicators", "rec_box">>

(* what the HTTP layer may answer to a background run *)
UiResponses ==
    {[kind |-> "exception", exc |-> "ConnectionError", status |-> 0, body |-> None],
     [kind |-> "response", exc |-> "", status |-> 200,
      body |-> [json |-> "iterable",
                items |-> Klines(RsiPeriod + 1, RsiPeriod + 1, 1, 0)]]}

(* lines 263-265: a new thread, which has not run a line of fetch() yet.   *)
(* at_symbol / at_interval record the selection when it was started.       *)
(* an in-flight guard: no new thread while one has not handed over yet *)
start_thread_single_flight(ts, symbol, interval) ==
    IF \E t \in 1..Len(ts) : ts[t].pc # "scheduled" THEN ts
    ELSE Append(ts, [pc |-> "started", symbol |-> "", interval |-> "",
                     signal |-> None, at_symbol |-> symbol, at_interval |-> interval])

start_thread(ts, symbol, interval) ==
    Append(ts, [pc |-> "started", symbol |-> "", interval |-> "",
                signal |-> None, at_symbol |-> symbol, at_interval |-> interval])

(* refresh_signal, lines 245-265, with the selection it is called under *)
refresh_signal(symbol, interval) ==
    /\ running
    /\ Len(threads) < MaxRefresh
    /\ signal_container' = LoadingWidgets
    /\ threads' = start_thread(threads, symbol, interval)
    /\ refreshes' = refreshes + 1
    /\ UNCHANGED <<clock, running, displayed, engine_vars>>

(* Clock.schedule_once(lambda dt: self.refresh_signal(), 1), line 161 *)
InitialLoad ==
    /\ initial_pending
    /\ initial_pending' = FALSE
    /\ refresh_signal(current_symbol, current_interval)
    /\ UNCHANGED <<current_symbol, current_interval>>

(* Clock.schedule_interval(self.refresh_signal, 300), line 158 *)
TimerTick ==
    /\ ~initial_pending
    /\ refresh_signal(current_symbol, current_interval)
    /\ UNCHANGED <<current_symbol, current_interval, initial_pending>>

(* refresh_btn on_press, line 225 *)
RefreshButton ==
    /\ refresh_signal(current_symbol, current_interval)
    /\ UNCHANGED <<current_symbol, current_interval, initial_pending>>

change_symbol(symbol) ==
    /\ current_symbol' = Usdt(symbol)
    /\ refresh_signal(Usdt(symbol), current_interval)
    /\ UNCHANGED <<current_interval, initial_pending>>

change_interval(interval) ==
    /\ current_interval' = interval
    /\ refresh_signal(current_symbol, interval)
    /\ UNCHANGED <<current_symbol, initial_pending>>

ChangeSymbol == \E symbol \in Symbols : change_symbol(symbol)

ChangeInterval == \E interval \in Intervals : change_interval(interval)

(* fetch(), line 259: trader = TradingSignal(self.current_symbol) *)
ThreadConstruct ==
    \E t \in 1..Len(threads) :
        /\ threads[t].pc = "started"
        /\ threads' = [threads EXCEPT ![t].pc = "constructed",
                                      ![t].symbol = current_symbol]
        /\ UNCHANGED <<current_symbol, current_interval, signal_container, clock,
                       running, initial_pending, displayed, refreshes, engine_vars>>

(* fetch(), lines 260-261: generate_signal(self.current_interval), then the *)
(* display callback is handed to the Clock                                  *)
ThreadGenerate ==
    \E t \in 1..Len(threads), answer \in UiResponses :
        /\ threads[t].pc = "constructed"
        /\ threads' = [threads EXCEPT
                          ![t].pc = "scheduled",
                          ![t].interval = current_interval,
                          ![t].signal = generate_signal(threads[t].symbol, answer, Now)]
        /\ clock' = Append(clock, t)
        /\ UNCHANGED <<current_symbol, current_interval, signal_container,
                       running, initial_pending, displayed, refreshes, engine_vars>>

(* display_signal, lines 267-355.  Line 316 reads signal['timestamp']: when *)
(* the key is missing the KeyError leaves the callback after the price      *)
(* label and the signal box were added, and, with no handler registered,    *)
(* ends the main loop.                                                      *)
display_signal(signal) ==
    IF "timestamp" \in DOMAIN signal
    THEN [widgets |-> CompleteRendering, raised |-> FALSE]
    ELSE [widgets |-> <<"price_label", "signal_box">>, raised |-> TRUE]

DisplaySignal ==
    /\ running
    /\ clock # <<>>
    /\ LET d == display_signal(threads[Head(clock)].signal)
       IN  /\ signal_container' = d.widgets
           /\ running' = ~d.raised
    /\ displayed' = Append(displayed, Head(clock))
    /\ clock' = Tail(clock)
    /\ UNCHANGED <<current_symbol, current_interval, threads, initial_pending,
                   refreshes, engine_vars>>

Init == UiInit /\ EngineIdle

Next ==
    \/ InitialLoad
    \/ TimerTick
    \/ RefreshButton
    \/ ChangeSymbol
    \/ ChangeInterval
    \/ ThreadConstruct
    \/ ThreadGenerate
    \/ DisplaySignal

Spec == Init /\ [][Next]_vars

(***************************************************************************)
(* Properties                                                              *)
(***************************************************************************)
Range(q) == {q[i] : i \in 1..Len(q)}

IncreasingByOne(ps) == \A i \in 1..(Len(ps) - 1) : ps[i + 1].close = ps[i].close + 1

WellFormedRow(item) ==
    /\ item.sub
    /\ Len(item.fields) >= 6
    /\ \A k \in 2..6 : item.fields[k].num

(* the failure outcomes of the single HTTP attempt *)
FailureOutcome(r) ==
    \/ r.kind = "exception"
    \/ r.status \notin 200..299
    \/ r.body.json # "iterable"
    \/ \E i \in 1..Len(r.body.items) : ~WellFormedRow(r.body.items[i])

NineFields ==
    {"symbol", "price", "signal", "strength", "rsi", "sma_20", "sma_50",
     "recommendation", "timestamp"}

(* C1: for a non-empty fetched sequence the result is BUY/2 exactly when   *)
(* rsi < 30 and sma_20 > sma_50, otherwise SELL/2 exactly when rsi > 70    *)
(* and sma_20 < sma_50, otherwise HOLD/0, each with its recommendation     *)
(* text; strength is 0 or 2.                                               *)
C1_TwoVoteClassification ==
    (pc = "signal" /\ prices # <<>>) =>
        LET buy == FLt(result.rsi, FInt(30)) /\ FGt(result.sma_20, result.sma_50)
            sell == FGt(result.rsi, FInt(70)) /\ FLt(result.sma_20, result.sma_50)
        IN  /\ result.rsi = calculate_rsi(prices, 14)
            /\ result.sma_20 = calculate_sma(prices, 20)
            /\ result.sma_50 = calculate_sma(prices, 50)
            /\ result.signal = (IF buy THEN "BUY" ELSE IF sell THEN "SELL" ELSE "HOLD")
            /\ result.strength = (IF buy \/ sell THEN 2 ELSE 0)
            /\ result.recommendation =
                  (IF buy THEN "Strong BUY signal detected"
                   ELSE IF sell THEN "Strong SELL signal detected"
                   ELSE "No clear signal - HOLD position")
            /\ result.strength \in {0, 2}

C1_Witness ==
    /\ pc = "signal"
    /\ prices # <<>>
    /\ result.signal = "BUY"
    /\ result.strength = 2
    /\ FLt(result.rsi, FInt(30))

(* C2: when fetch_data returns the empty sequence, generate_signal returns *)
(* ERROR with strength 0, price, rsi, sma_20 and sma_50 all 0 and the text *)
(* "Unable to fetch data", no indicator fallback in it, after one request. *)
C2_ErrorResult ==
    (pc = "signal" /\ prices = <<>>) =>
        /\ result.signal = "ERROR"
        /\ result.strength = 0
        /\ result.price = FInt(0)
        /\ result.rsi = FInt(0)
        /\ result.sma_20 = FInt(0)
        /\ result.sma_50 = FInt(0)
        /\ result.recommendation = "Unable to fetch data"
        /\ requests_made = 1

C2_Witness ==
    /\ pc = "signal"
    /\ prices = <<>>
    /\ response.kind = "exception"
    /\ result.signal = "ERROR"

(* C3: on every failure outcome (network error, timeout, non-2xx status,   *)
(* malformed body) fetch_data returns the empty sequence, after exactly    *)
(* one request.                                                            *)
C3_FailSoft ==
    (pc = "fetched" /\ FailureOutcome(response)) =>
        (prices = <<>> /\ requests_made = 1)

(* C4: every result of generate_signal, ERROR included, carries the nine   *)
(* fields, the timestamp being a date part and a time part.                *)
C4_NineFields ==
    (pc = "signal") =>
        (DOMAIN result = NineFields /\ Len(result.timestamp) = 2)

(* C5 as stated: 14 closes rising by 1 give calculate_rsi(period 14) = 100 *)
C5_FourteenCloses ==
    (pc = "rsi" /\ period = 14 /\ Len(prices) = 14 /\ IncreasingByOne(prices)) =>
        rsi_out = FInt(100)

(* C5 amended: 15 closes rising by 1 (14 positive deltas) give exactly     *)
(* 100; 14 such closes are one short of period+1 and give the neutral 50.  *)
C5_FifteenCloses ==
    (pc = "rsi" /\ period = 14 /\ IncreasingByOne(prices)) =>
        /\ (Len(prices) = 15 => rsi_out = FInt(100))
        /\ (Len(prices) = 14 => rsi_out = FInt(50))

C5_Witness ==
    /\ pc = "rsi"
    /\ period = 14
    /\ Len(prices) = 15
    /\ IncreasingByOne(prices)
    /\ rsi_out = FInt(100)

(* C6: fewer than period+1 candles give calculate_rsi = 50 exactly, fewer  *)
(* than period candles give calculate_sma = 0 exactly, whatever the closes *)
C6_InsufficientData ==
    /\ (pc = "rsi" /\ Len(prices) < period + 1) => rsi_out = FInt(50)
    /\ (pc = "sma" /\ Len(prices) < period) => sma_out = FInt(0)

C6_Witness ==
    /\ pc = "rsi"
    /\ period = RsiPeriod
    /\ Len(prices) = period
    /\ ~IncreasingByOne(prices)
    /\ rsi_out = FInt(50)

(* C7: once display_signal has run for a result, ERROR included, the       *)
(* container holds the complete rendering unless a newer refresh has put   *)
(* the loading placeholder back.                                           *)
C7_CompleteRendering ==
    (displayed # <<>> /\ signal_container # LoadingWidgets) =>
        signal_container = CompleteRendering

(* C8: every refresh starts its own run, whatever is in flight; no run is  *)
(* cancelled and no callback dropped: each run is waiting, running, queued *)
(* on the Clock or displayed.                                              *)
C8_NoSerialization ==
    /\ Len(threads) = refreshes
    /\ \A t \in 1..Len(threads) :
          /\ threads[t].pc \in {"started", "constructed", "scheduled"}
          /\ threads[t].pc = "scheduled" <=> t \in Range(clock) \cup Range(displayed)
    /\ Range(clock) \cap Range(displayed) = {}

(* both runs were in flight together, both have been rendered, and the one *)
(* rendered last is the earlier-triggered one                              *)
C8_Witness ==
    /\ displayed = <<2, 1>>
    /\ clock = <<>>
    /\ running
    /\ signal_container = CompleteRendering

(* C9: a run fetches the symbol and the interval that were selected when   *)
(* its refresh was triggered.                                              *)
C9_SelectionAtTrigger ==
    \A t \in 1..Len(threads) :
        /\ threads[t].pc # "started" => threads[t].symbol = threads[t].at_symbol
        /\ threads[t].pc = "scheduled" =>
              /\ threads[t].interval = threads[t].at_interval
              /\ threads[t].signal.symbol = threads[t].at_symbol

(* C10: a non-empty sequence of fewer than 50 candles never gives BUY or   *)
(* SELL: HOLD with strength 0.                                             *)
C10_FallbackNeverVotes ==
    (pc = "signal" /\ prices # <<>> /\ Len(prices) < 50) =>
        (result.signal = "HOLD" /\ result.strength = 0)

=============================================================================
